---- MODULE Spec2Model ----
(***************************************************************************)
(* PathFinder (src/pathfinder_web/pathfinder.py): the scanner object, its  *)
(* construction from a wordlist, the batched directory scan driven by      *)
(* asyncio.gather and the sequential subdomain scan.                       *)
(*                                                                         *)
(* Strings are sequences of one-character strings, so that str.endswith,   *)
(* str.strip, str.lstrip and concatenation are computed, not assumed.      *)
(***************************************************************************)
EXTENDS Integers, Sequences, FiniteSets, TLC

(* ------------------------------ bounds -------------------------------- *)

\* longest in-memory wordlist handed to the constructor
MaxWords == 3
\* longest wordlist file, in lines
MaxLines == 2
\* largest configured width (threads); widths are 1..MaxThreads
MaxThreads == 2
\* longest extension list (types)
MaxTypes == 2
\* most probe units one scan may expand to: |wordlist| * (1 + |types|)
MaxUnits == 5
\* most addresses a resolver answer carries
MaxAnswers == 2
\* most probe units of a scan run through main(), and of a repeated scan
MaxMainUnits == 2

(* ------------------------------ inputs -------------------------------- *)

\* the words an in-memory wordlist is drawn from: "a" and "/p"
WordChoices == { <<"a">>, <<"/", "p">> }

\* the lines a wordlist file is drawn from: two entries (one padded with
\* white space), an empty line, a blank line and a comment
FileLineChoices ==
  { <<"a">>, <<" ", "/", "p", " ">>, <<>>, <<" ">>, <<"#", "a">> }

\* the extensions a types list is drawn from: "p" and "x"
ExtChoices == { <<"p">>, <<"x">> }

\* the status codes a responding server answers with
StatusChoices == { 200, 404 }

\* the timeout parameter's default: timeout: int = 3
DefaultTimeout == 3

\* a value given with --timeout that is not the default
OtherTimeout == 10

\* the values of the --timeout option
TimeoutChoices == { DefaultTimeout, OtherTimeout }

\* the output file before anything was written to it: there is none
Absent == [fmt |-> "absent", text |-> <<>>]

\* the values of the --format option
FormatChoices == { "txt", "json", "csv" }

SeqsUpTo(S, n) == UNION { [1..k -> S] : k \in 0..n }

\* the wordlist argument of the constructor: a list, a path to an existing
\* file with the given lines, or a path to no file
ArgChoices ==
  { [kind |-> "list", val |-> w] : w \in SeqsUpTo(WordChoices, MaxWords) }
  \cup { [kind |-> "file", val |-> f] : f \in SeqsUpTo(FileLineChoices, MaxLines) }
  \cup { [kind |-> "missing", val |-> <<>>] }

\* the argument once the constructor has returned
NoArg == [kind |-> "none", val |-> <<>>]

(* --------------------------- string helpers --------------------------- *)

\* the test for the dotted suffix: s ends with "." and the extension
EndsWithDotted(s, suffix) ==
  /\ Len(suffix) + 1 <= Len(s)
  /\ SubSeq(s, Len(s) - Len(suffix), Len(s)) = <<".">> \o suffix

\* str.endswith(suffix)
EndsWith(s, suffix) ==
  /\ Len(suffix) <= Len(s)
  /\ SubSeq(s, Len(s) - Len(suffix) + 1, Len(s)) = suffix

\* str.startswith(prefix)
StartsWith(s, prefix) ==
  /\ Len(prefix) <= Len(s)
  /\ SubSeq(s, 1, Len(prefix)) = prefix

RECURSIVE LStripChar(_, _)
\* str.lstrip(c) for a one-character c
LStripChar(s, c) ==
  IF s # <<>> /\ Head(s) = c THEN LStripChar(Tail(s), c) ELSE s

RECURSIVE RStripChar(_, _)
RStripChar(s, c) ==
  IF s # <<>> /\ s[Len(s)] = c
  THEN RStripChar(SubSeq(s, 1, Len(s) - 1), c)
  ELSE s

\* str.strip() over the white space the model's lines contain
Strip(s) == RStripChar(LStripChar(s, " "), " ")

(* ------------------------------ state --------------------------------- *)

VARIABLES
  pc,            \* where the program is: new, error, ready, loop, gather,
                 \* subloop, done, failed
  raised,        \* the exception that ended the program, or "none"
  arg,           \* the constructor's wordlist argument
  wordlist,      \* self.wordlist
  threads,       \* self.threads
  types,         \* self.types
  session,       \* self.session: "none" or "open"
  results,       \* self.results
  mode,          \* the scan that was started: "none", "dir" or "sub"
  i,             \* the loop variable of the scan, 0-based
  tasks,         \* the awaitables handed to asyncio.gather, with their state
  processed,     \* the progress bar's completed count
  progressCalls, \* history: calls of progress.update
  dispatched,    \* history: the probe units dispatched, in dispatch order
  outcomes,      \* history: how each dispatched unit settled
  reordered,     \* history: a probe settled before one dispatched earlier
  out,           \* main: args.out was given
  format,        \* self.output_format
  file,          \* the output file: Absent or what was written to it
  argTimeout,    \* main: args.timeout
  timeout,       \* self.timeout (0: not set yet)
  sessionTimeout,\* the total timeout of the open session (0: no session yet)
  scans,         \* scan invocations after the first one
  stable,        \* the target answers a URL the same way every time
  server,        \* how the stable target has answered each URL so far
  first          \* history: what the first scan invocation found

\* what main() adds to the scanner
mainVars == << out, format, file, argTimeout >>

\* what repeated scans add (server apart)
repeatVars == << scans, stable, first >>

vars == << pc, raised, arg, wordlist, threads, types, session, results, mode,
           i, tasks, processed, progressCalls, dispatched, outcomes,
           reordered, out, format, file, argTimeout, timeout, sessionTimeout,
           scans, stable, server, first >>

(* ---------------------------- construction ---------------------------- *)

\* self.target, already stripped of trailing slashes
Target == <<"t">>

RECURSIVE ReadPaths(_)
\* the loop over the lines of the wordlist file: strip each line, keep it
\* unless it is empty or a comment
ReadPaths(lines) ==
  IF lines = <<>> THEN <<>>
  ELSE LET line == Strip(Head(lines))
       IN  (IF line # <<>> /\ ~StartsWith(line, <<"#">>) THEN <<line>> ELSE <<>>)
           \o ReadPaths(Tail(lines))

\* _load_wordlist: the list itself, or the paths read from the file; raises
\* when the file does not exist and when no path was read from it
LoadWordlist(a) ==
  IF a.kind = "list" THEN [exc |-> "none", val |-> a.val]
  ELSE IF a.kind = "missing" THEN [exc |-> "FileNotFoundError", val |-> <<>>]
  ELSE LET paths == ReadPaths(a.val)
       IN  IF paths = <<>> THEN [exc |-> "ValueError", val |-> <<>>]
           ELSE [exc |-> "none", val |-> paths]

\* the fields and the history before construction
ScannerFields ==
  /\ wordlist = <<>>
  /\ session = "none"
  /\ results = <<>>
  /\ mode = "none"
  /\ i = 0
  /\ tasks = <<>>
  /\ processed = 0
  /\ progressCalls = 0
  /\ dispatched = <<>>
  /\ outcomes = <<>>
  /\ reordered = FALSE

\* no first scan invocation has ended yet
NoFirst == [mode |-> "none", found |-> {}]

\* the scanner before construction, its arguments chosen
ScannerInit ==
  /\ pc = "new"
  /\ raised = "none"
  /\ arg \in ArgChoices
  /\ threads \in 1..MaxThreads
  /\ types \in SeqsUpTo(ExtChoices, MaxTypes)
  /\ timeout = 0
  /\ sessionTimeout = 0
  /\ file = Absent
  /\ scans = 0
  /\ server = {}
  /\ first = NoFirst
  /\ ScannerFields

\* one scan of a scanner built with the default options, against a target
\* that may answer a URL differently each time
Init ==
  /\ ScannerInit
  /\ Len(LoadWordlist(arg).val) * (1 + Len(types)) <= MaxUnits
  /\ out = FALSE
  /\ format = "txt"
  /\ argTimeout = DefaultTimeout
  /\ stable = FALSE

\* the keys of the settings main() builds for the constructor
SettingsKeys ==
  { "target", "wordlist", "simple_mode", "verify_ssl", "threads", "types",
    "output_format" }

\* the constructor's timeout argument when main() calls it with its settings
\* and the option --timeout has the value a: the parameter's default unless
\* the settings carry a timeout
CtorTimeout(a) == IF "timeout" \in SettingsKeys THEN a ELSE DefaultTimeout

\* PathFinder.__init__: load the wordlist, start with no results and no
\* session; an exception of _load_wordlist leaves no object behind
PathFinderInit ==
  /\ pc = "new"
  /\ LET r == LoadWordlist(arg)
     IN  IF r.exc # "none"
         THEN /\ pc' = "error"
              /\ raised' = r.exc
              /\ UNCHANGED << arg, wordlist, results, session, timeout >>
         ELSE /\ pc' = "ready"
              /\ wordlist' = r.val
              /\ timeout' = CtorTimeout(argTimeout)
              /\ results' = <<>>
              /\ session' = "none"
              /\ arg' = NoArg
              /\ UNCHANGED raised
  /\ UNCHANGED << threads, types, mode, i, tasks, processed, progressCalls,
                  dispatched, outcomes, reordered >>
  /\ UNCHANGED << mainVars, repeatVars, sessionTimeout, server >>

(* --------------------------- directory scan --------------------------- *)

\* the URL _check_url requests for a path
Url(path) == Target \o <<"/">> \o LStripChar(path, "/")

RECURSIVE ExtUnits(_, _)
\* the inner loop over self.types: path.ext for every extension the path
\* does not end with
ExtUnits(path, exts) ==
  IF exts = <<>> THEN <<>>
  ELSE (IF ~EndsWith(path, Head(exts))
        THEN << path \o <<".">> \o Head(exts) >>
        ELSE <<>>)
       \o ExtUnits(path, Tail(exts))

RECURSIVE BatchUnits(_, _)
\* the loop over the batch: the path itself, then its extensions
BatchUnits(batch, exts) ==
  IF batch = <<>> THEN <<>>
  ELSE << Head(batch) >> \o ExtUnits(Head(batch), exts)
       \o BatchUnits(Tail(batch), exts)

Min(a, b) == IF a <= b THEN a ELSE b

\* self.wordlist[k : k + width + 1]
BatchWide(words, k, width) ==
  SubSeq(words, k + 1, Min(k + width + 1, Len(words)))

\* self.wordlist[k : k + width]
Batch(words, k, width) == SubSeq(words, k + 1, Min(k + width, Len(words)))

\* the coroutines handed to gather; unit numbers them in dispatch order
MakeTasks(units, base) ==
  [ k \in 1..Len(units) |->
      [path |-> units[k], unit |-> base + k, state |-> "pending", status |-> 0] ]

\* the probes of the current gather that have not settled
InFlight == { k \in 1..Len(tasks) : tasks[k].state = "pending" }

\* scan_directories up to the loop: _init_session opens the session when
\* there is none, the progress task starts at 0
StartScanDirectories ==
  /\ pc = "ready"
  /\ session' = (IF session = "none" THEN "open" ELSE session)
  /\ sessionTimeout' = (IF session = "none" THEN timeout ELSE sessionTimeout)
  /\ mode' = "dir"
  /\ i' = 0
  /\ processed' = 0
  /\ pc' = "loop"
  /\ UNCHANGED << raised, arg, wordlist, threads, types, results, tasks,
                  progressCalls, dispatched, outcomes, reordered >>
  /\ UNCHANGED << mainVars, repeatVars, timeout, server >>

\* one iteration of the loop up to the await: slice the batch, build the
\* tasks, hand them all to gather
DispatchBatch ==
  /\ pc = "loop"
  /\ mode = "dir"
  /\ i < Len(wordlist)
  /\ LET units == BatchUnits(Batch(wordlist, i, threads), types)
     IN  /\ tasks' = MakeTasks(units, Len(dispatched))
         /\ dispatched' = dispatched \o units
  /\ pc' = "gather"
  /\ UNCHANGED << raised, arg, wordlist, threads, types, session, results,
                  mode, i, processed, progressCalls, outcomes, reordered >>
  /\ UNCHANGED << mainVars, repeatVars, timeout, sessionTimeout, server >>

\* the target may answer the URL this way: any way, unless it is stable and
\* has answered the URL before
ServerAllows(url, state, status) ==
  stable =>
    \A e \in server : e.url = url => (e.state = state /\ e.status = status)

\* one coroutine of the gather settles; the others stay as they are
Settle(k, state, status) ==
  /\ ServerAllows(Url(tasks[k].path), state, status)
  /\ server' = (IF stable
                THEN server \cup { [url |-> Url(tasks[k].path), state |-> state,
                                    status |-> status] }
                ELSE server)
  /\ tasks' = [tasks EXCEPT ![k].state = state, ![k].status = status]
  /\ reordered' = (reordered \/ \E j \in InFlight : j < k)
  /\ UNCHANGED << pc, raised, arg, wordlist, threads, types, session, results,
                  mode, i, processed, progressCalls, dispatched, outcomes >>
  /\ UNCHANGED << mainVars, repeatVars, timeout, sessionTimeout >>

\* _check_url: the request is answered, the coroutine returns a dict
ProbeResponds ==
  /\ pc = "gather"
  /\ \E k \in InFlight, s \in StatusChoices : Settle(k, "dict", s)

\* _check_url: aiohttp.ClientError is caught, the coroutine returns None
ProbeClientError ==
  /\ pc = "gather"
  /\ \E k \in InFlight : Settle(k, "none", 0)

\* _check_url: any other exception (the total timeout's asyncio.TimeoutError
\* among them) leaves the coroutine
ProbeRaises ==
  /\ pc = "gather"
  /\ \E k \in InFlight : Settle(k, "exc", 0)

\* gather(...) called without return_exceptions
ReturnExceptionsOff == FALSE

\* gather(..., return_exceptions=True)
ReturnExceptions == TRUE

\* gather raises into the awaiting coroutine: only without return_exceptions,
\* as soon as one awaitable has raised
GatherRaises(ts) ==
  /\ ~ReturnExceptions
  /\ \E k \in 1..Len(ts) : ts[k].state = "exc"

\* the await ends with the first awaitable that settles
GatherFirstCompleted(ts) ==
  \E k \in 1..Len(ts) : ts[k].state # "pending"

\* the await of gather ends: every awaitable has settled, or gather raises
GatherReady(ts) ==
  \/ \A k \in 1..Len(ts) : ts[k].state # "pending"
  \/ GatherRaises(ts)

\* r is not None
IsNotNone(t) == t.state # "none"

\* isinstance(r, dict)
IsValidResult(t) == t.state = "dict"

\* the record _check_url returns (unit is history: the probe it came from)
ResultOf(t) == [url |-> Url(t.path), status_code |-> t.status, unit |-> t.unit]

RECURSIVE ValidResults(_)
\* [r for r in results if isinstance(r, dict)], in the order of the tasks
ValidResults(ts) ==
  IF ts = <<>> THEN <<>>
  ELSE (IF IsValidResult(Head(ts)) THEN << ResultOf(Head(ts)) >> ELSE <<>>)
       \o ValidResults(Tail(ts))

\* range(0, len(self.wordlist)): the step left out
NextIndexByOne(k, width) == k + 1

\* range(0, len(self.wordlist), self.threads): the next value of the loop
\* variable
NextIndex(k, width) == k + width

\* only the records whose URL is not accumulated yet are appended
ExtendNew(acc, valid) ==
  acc \o SelectSeq(valid, LAMBDA r : \A k \in 1..Len(acc) : acc[k].url # r.url)

\* the new records put in front of the accumulated ones
ExtendFront(acc, valid) == valid \o acc

\* self.results.extend(valid_results)
Extend(acc, valid) == acc \o valid

\* progress.update(task, advance=len(tasks))
AdvanceByTasks(batch, ts) == Len(ts)

\* progress.update(task, advance=len(batch))
Advance(batch, ts) == Len(batch)

\* how a settled task is logged in the history
OutcomeOf(t) == [state |-> t.state, status |-> t.status]

\* the session is closed only when the scan returns
ClosedOnReturn(s, path) == IF path = "return" THEN "none" ELSE s

\* self.session once scan_directories has left its try statement by the
\* given path ("return", "raise" or "cancel"): the finally clause awaits
\* _close_session, which closes an open session and sets the field to None
ClosedOnExit(s, path) == "none"

\* the await of gather returns: keep the dicts, extend the results, advance
\* the progress, go to the next iteration; or gather raises and the finally
\* clause closes the session on the way out
GatherReturn ==
  /\ pc = "gather"
  /\ GatherReady(tasks)
  /\ IF GatherRaises(tasks)
     THEN /\ pc' = "failed"
          /\ raised' = "Exception"
          /\ session' = ClosedOnExit(session, "raise")
          /\ UNCHANGED << results, processed, progressCalls, outcomes, i >>
     ELSE /\ results' = Extend(results, ValidResults(tasks))
          /\ processed' = processed + Advance(Batch(wordlist, i, threads), tasks)
          /\ progressCalls' = progressCalls + 1
          /\ outcomes' = outcomes \o [k \in 1..Len(tasks) |-> OutcomeOf(tasks[k])]
          /\ i' = NextIndex(i, threads)
          /\ pc' = "loop"
          /\ UNCHANGED << raised, session >>
  /\ UNCHANGED << arg, wordlist, threads, types, mode, tasks, dispatched,
                  reordered >>
  /\ UNCHANGED << mainVars, repeatVars, timeout, sessionTimeout, server >>

\* the loop is exhausted: the finally clause closes the session
FinishScanDirectories ==
  /\ pc = "loop"
  /\ mode = "dir"
  /\ i >= Len(wordlist)
  /\ session' = ClosedOnExit(session, "return")
  /\ pc' = "done"
  /\ UNCHANGED << raised, arg, wordlist, threads, types, results, mode, i,
                  tasks, processed, progressCalls, dispatched, outcomes,
                  reordered >>
  /\ UNCHANGED << mainVars, repeatVars, timeout, sessionTimeout, server >>

(* --------------------------- subdomain scan --------------------------- *)

\* f"{subdomain}.{self.target}"
FullDomain(label) == label \o <<".">> \o Target

\* a record for the first address of the answer only
AnswerFirstOnly(label, n, unit) ==
  << [subdomain |-> FullDomain(label), ip |-> 1, unit |-> unit] >>

\* the records appended for an answer of n addresses
AnswerRecords(label, n, unit) ==
  [ k \in 1..n |-> [subdomain |-> FullDomain(label), ip |-> k, unit |-> unit] ]

\* scan_subdomains up to the loop: no session, the progress task starts at 0
StartScanSubdomains ==
  /\ pc = "ready"
  /\ mode' = "sub"
  /\ i' = 0
  /\ processed' = 0
  /\ pc' = "subloop"
  /\ UNCHANGED << raised, arg, wordlist, threads, types, session, results,
                  tasks, progressCalls, dispatched, outcomes, reordered >>
  /\ UNCHANGED << mainVars, repeatVars, timeout, sessionTimeout, server >>

\* what every iteration of the subdomain loop does around the resolution:
\* the label is resolved, the progress advances by one
SubdomainStep(outcome) ==
  /\ dispatched' = Append(dispatched, wordlist[i + 1])
  /\ outcomes' = Append(outcomes, outcome)
  /\ processed' = processed + 1
  /\ progressCalls' = progressCalls + 1
  /\ i' = i + 1
  /\ UNCHANGED << pc, raised, arg, wordlist, threads, types, session, mode,
                  tasks, reordered >>
  /\ UNCHANGED << mainVars, repeatVars, timeout, sessionTimeout, server >>

\* the resolver answers: one record per address
ResolveAnswers ==
  /\ pc = "subloop"
  /\ i < Len(wordlist)
  /\ \E n \in 1..MaxAnswers :
       /\ results' = results
            \o AnswerRecords(wordlist[i + 1], n, Len(dispatched) + 1)
       /\ SubdomainStep([state |-> "answers", status |-> n])

\* NXDOMAIN or NoAnswer: pass
ResolveAbsent ==
  /\ pc = "subloop"
  /\ i < Len(wordlist)
  /\ \E e \in {"NXDOMAIN", "NoAnswer"} :
       SubdomainStep([state |-> e, status |-> 0])
  /\ UNCHANGED results

\* any other Exception of the resolver: logged at debug level
ResolveError ==
  /\ pc = "subloop"
  /\ i < Len(wordlist)
  /\ SubdomainStep([state |-> "exc", status |-> 0])
  /\ UNCHANGED results

\* the loop over the wordlist is exhausted
FinishScanSubdomains ==
  /\ pc = "subloop"
  /\ i >= Len(wordlist)
  /\ pc' = "done"
  /\ UNCHANGED << raised, arg, wordlist, threads, types, session, results,
                  mode, i, tasks, processed, progressCalls, dispatched,
                  outcomes, reordered >>
  /\ UNCHANGED << mainVars, repeatVars, timeout, sessionTimeout, server >>

(* ------------------------------ export -------------------------------- *)

\* the fields of a record in the order the dict was built (unit is history,
\* not a field of the dict)
FieldNames(r) ==
  IF "url" \in DOMAIN r THEN << "url", "status_code" >>
  ELSE << "subdomain", "ip" >>

DigitChars == << "0", "1", "2", "3", "4", "5", "6", "7", "8", "9" >>

RECURSIVE Digits(_)
\* the decimal digits json writes for a non-negative int
Digits(n) ==
  IF n < 10 THEN << DigitChars[n + 1] >>
  ELSE Digits(n \div 10) \o << DigitChars[(n % 10) + 1] >>

RECURSIVE Number(_)
\* the int json reads from decimal digits
Number(ds) ==
  IF ds = <<>> THEN 0
  ELSE Number(SubSeq(ds, 1, Len(ds) - 1)) * 10
       + (CHOOSE d \in 0..9 : DigitChars[d + 1] = ds[Len(ds)])

\* the JSON token of a field's value: a number for the int status_code, a
\* string for the str fields
JsonValue(key, v) ==
  IF key = "status_code" THEN [t |-> "num", v |-> Digits(v)]
  ELSE [t |-> "str", v |-> v]

RECURSIVE JsonMembers(_, _)
\* "key": value, ... for the given fields of a record
JsonMembers(r, names) ==
  IF names = <<>> THEN <<>>
  ELSE << [t |-> "str", v |-> Head(names)], [t |-> ":", v |-> <<>>],
          JsonValue(Head(names), r[Head(names)]) >>
       \o (IF Len(names) > 1 THEN << [t |-> ",", v |-> <<>>] >> ELSE <<>>)
       \o JsonMembers(r, Tail(names))

\* { members }
JsonObject(r) ==
  << [t |-> "{", v |-> <<>>] >> \o JsonMembers(r, FieldNames(r))
  \o << [t |-> "}", v |-> <<>>] >>

RECURSIVE JsonElements(_)
JsonElements(rs) ==
  IF rs = <<>> THEN <<>>
  ELSE JsonObject(Head(rs))
       \o (IF Len(rs) > 1 THEN << [t |-> ",", v |-> <<>>] >> ELSE <<>>)
       \o JsonElements(Tail(rs))

\* json.dump(self.results, f): the tokens of the array written
JsonDump(rs) ==
  << [t |-> "[", v |-> <<>>] >> \o JsonElements(rs)
  \o << [t |-> "]", v |-> <<>>] >>

\* the value json reads from a value token
JsonParseValue(tok) == IF tok.t = "num" THEN Number(tok.v) ELSE tok.v

RECURSIVE JsonParseMembers(_, _)
\* the object whose members start at token p, and the place after its "}"
JsonParseMembers(ts, p) ==
  LET member == ts[p].v :> JsonParseValue(ts[p + 2])
  IN  IF ts[p + 3].t = ","
      THEN LET rest == JsonParseMembers(ts, p + 4)
           IN  [obj |-> member @@ rest.obj, next |-> rest.next]
      ELSE [obj |-> member, next |-> p + 4]

RECURSIVE JsonParseElements(_, _)
\* the objects of the array from token p up to its "]"
JsonParseElements(ts, p) ==
  IF ts[p].t = "]" THEN <<>>
  ELSE IF ts[p].t = "," THEN JsonParseElements(ts, p + 1)
  ELSE LET o == JsonParseMembers(ts, p + 1)
       IN  << o.obj >> \o JsonParseElements(ts, o.next)

\* json.load(f) of a file json.dump wrote: the list of objects
JsonLoad(ts) == JsonParseElements(ts, 2)

RECURSIVE RemoveAll(_, _)
\* str.replace(old, ''): every occurrence of old removed, left to right
RemoveAll(str, old) ==
  IF str = <<>> THEN <<>>
  ELSE IF StartsWith(str, old)
       THEN RemoveAll(SubSeq(str, Len(old) + 1, Len(str)), old)
       ELSE << Head(str) >> \o RemoveAll(Tail(str), old)

\* the line the txt format writes for a record
TxtLine(r) ==
  IF "url" \in DOMAIN r
  THEN << RemoveAll(r.url, Target), " - Status: ", Digits(r.status_code) >>
  ELSE << r.subdomain, " -> ", r.ip >>

\* the row csv.DictWriter writes for a record under the header
CsvRow(r, header) ==
  [ k \in 1..Len(header) |->
      IF header[k] \in DOMAIN r THEN r[header[k]] ELSE <<>> ]

\* export_results: what the output file holds afterwards; nothing is written
\* for an empty result list
ExportFile(rs, fmt, old) ==
  IF rs = <<>> THEN old
  ELSE IF fmt = "json" THEN [fmt |-> "json", text |-> JsonDump(rs)]
  ELSE IF fmt = "csv"
  THEN [fmt |-> "csv",
        text |-> << FieldNames(rs[1]) >>
                 \o [k \in 1..Len(rs) |-> CsvRow(rs[k], FieldNames(rs[1]))]]
  ELSE [fmt |-> "txt", text |-> [k \in 1..Len(rs) |-> TxtLine(rs[k])]]

(* ------------------------------- main() ------------------------------- *)

\* a run of main(): the wordlist is a path (or the built-in file), the scan
\* has at most MaxMainUnits probe units
MainInit ==
  /\ ScannerInit
  /\ arg.kind \in {"file", "missing"}
  /\ Len(LoadWordlist(arg).val) * (1 + Len(types)) <= MaxMainUnits
  /\ out \in BOOLEAN
  /\ format \in FormatChoices
  /\ argTimeout \in TimeoutChoices
  /\ stable = FALSE

\* the awaitables of a cancelled gather: what had not settled is cancelled
Cancelled(ts) ==
  [ k \in 1..Len(ts) |->
      IF ts[k].state = "pending" THEN [ts[k] EXCEPT !.state = "cancelled"]
      ELSE ts[k] ]

\* KeyboardInterrupt during asyncio.run: the scan is cancelled where it is,
\* in a directory scan the finally clause runs on the way out
Interrupt ==
  /\ pc \in {"loop", "gather", "subloop"}
  /\ raised' = "KeyboardInterrupt"
  /\ tasks' = Cancelled(tasks)
  /\ session' = (IF mode = "dir" THEN ClosedOnExit(session, "cancel")
                 ELSE session)
  /\ pc' = "cancelled"
  /\ UNCHANGED << arg, wordlist, threads, types, results, mode, i, processed,
                  progressCalls, dispatched, outcomes, reordered >>
  /\ UNCHANGED << mainVars, repeatVars, timeout, sessionTimeout, server >>

\* a statement of the try block of scan_directories other than the await
\* raises (the console, the progress bar): the finally clause runs
ScanBodyRaises ==
  /\ pc = "loop"
  /\ mode = "dir"
  /\ raised' = "Exception"
  /\ session' = ClosedOnExit(session, "raise")
  /\ pc' = "failed"
  /\ UNCHANGED << arg, wordlist, threads, types, results, mode, i, tasks,
                  processed, progressCalls, dispatched, outcomes, reordered >>
  /\ UNCHANGED << mainVars, repeatVars, timeout, sessionTimeout, server >>

\* main() after the scan returned: export when --out was given, then return
MainExport ==
  /\ pc = "done"
  /\ file' = (IF out THEN ExportFile(results, format, file) ELSE file)
  /\ pc' = "exit"
  /\ UNCHANGED << raised, arg, wordlist, threads, types, session, results,
                  mode, i, tasks, processed, progressCalls, dispatched,
                  outcomes, reordered >>
  /\ UNCHANGED << out, format, argTimeout, repeatVars, timeout,
                  sessionTimeout, server >>

\* main()'s except clauses: print the message, sys.exit(1)
MainExcept ==
  /\ pc \in {"error", "cancelled", "failed"}
  /\ pc' = "exit"
  /\ UNCHANGED << raised, arg, wordlist, threads, types, session, results,
                  mode, i, tasks, processed, progressCalls, dispatched,
                  outcomes, reordered >>
  /\ UNCHANGED << mainVars, repeatVars, timeout, sessionTimeout, server >>

(* --------------------------- repeated scans --------------------------- *)

\* the Found outcomes of a result list as a set: URL and status code of
\* every directory record, time stamps left out
FoundSet(rs) ==
  { << rs[k].url, rs[k].status_code >> :
      k \in { j \in 1..Len(rs) : "url" \in DOMAIN rs[j] } }

\* scans of a scanner built from an in-memory wordlist, of at most
\* MaxMainUnits probe units, that may be repeated
RepeatInit ==
  /\ ScannerInit
  /\ arg.kind = "list"
  /\ Len(arg.val) * (1 + Len(types)) <= MaxMainUnits
  /\ out = FALSE
  /\ format = "txt"
  /\ argTimeout = DefaultTimeout
  /\ stable \in BOOLEAN

\* what the second of two scan invocations starts from, s being the result
\* list it finds: the history starts again, the first invocation's findings
\* are kept
NextInvocation(s) ==
  /\ pc = "done"
  /\ scans = 0
  /\ scans' = scans + 1
  /\ first' = [mode |-> mode, found |-> FoundSet(results)]
  /\ results' = s
  /\ pc' = "ready"
  /\ tasks' = <<>>
  /\ progressCalls' = 0
  /\ dispatched' = <<>>
  /\ outcomes' = <<>>
  /\ reordered' = FALSE
  /\ UNCHANGED << raised, arg, wordlist, threads, types, session, mode, i,
                  processed, mainVars, stable, timeout, sessionTimeout,
                  server >>

\* a scan method is called again on the same scanner: nothing between
\* __init__ and the scan methods touches self.results
ScanAgain == NextInvocation(results)

\* the program is run again with the same arguments: __init__ builds a new
\* scanner, with self.results = []
RunAgain == NextInvocation(<<>>)

(* --------------------------- specifications --------------------------- *)

Next ==
  \/ PathFinderInit
  \/ StartScanDirectories
  \/ DispatchBatch
  \/ ProbeResponds
  \/ ProbeClientError
  \/ ProbeRaises
  \/ GatherReturn
  \/ FinishScanDirectories
  \/ StartScanSubdomains
  \/ ResolveAnswers
  \/ ResolveAbsent
  \/ ResolveError
  \/ FinishScanSubdomains

Spec == Init /\ [][Next]_vars

MainNext ==
  \/ Next
  \/ Interrupt
  \/ ScanBodyRaises
  \/ MainExport
  \/ MainExcept

\* a run of main(), which an interrupt may end
MainSpec == MainInit /\ [][MainNext]_vars

RepeatNext ==
  \/ Next
  \/ ScanAgain
  \/ RunAgain

\* scans that are repeated, on the same scanner or on a new one
RepeatSpec == RepeatInit /\ [][RepeatNext]_vars

\* the event loop runs every step that is ready, and every dispatched probe
\* settles: weak fairness of each step
FairSpec == Spec /\ WF_vars(Next)

(* ------------------------------- claims ------------------------------- *)

Ceil(n, w) == (n + w - 1) \div w

Settled(ts) == \A k \in 1..Len(ts) : ts[k].state # "pending"

Failed(o) == o.state \in {"none", "exc"}

\* C1: during a directory scan the number of probes in flight never exceeds
\* the configured width (threads).
C1_InFlightWithinWidth ==
  mode = "dir" => Cardinality(InFlight) <= threads

\* C2: batches are sequential: a step of a directory scan that dispatches
\* probes starts from a state in which every probe dispatched before has
\* settled and its batch has been collected.
C2_BatchesSequential ==
  [][ (mode = "dir" /\ dispatched' # dispatched)
        => /\ Settled(tasks)
           /\ Len(outcomes) = Len(dispatched) ]_vars

\* a second batch is in flight after a first batch whose probes (and its
\* own) did not settle in dispatch order
C2_Witness ==
  /\ mode = "dir"
  /\ pc = "gather"
  /\ progressCalls >= 1
  /\ Len(outcomes) >= 2
  /\ reordered
  /\ \E a, b \in 1..Len(tasks) :
       a < b /\ tasks[a].state = "pending" /\ tasks[b].state # "pending"

\* a probe of the scan has failed: among the collected ones or in the
\* current batch
SomeProbeFailed ==
  \/ \E u \in 1..Len(outcomes) : Failed(outcomes[u])
  \/ \E k \in 1..Len(tasks) : Failed(tasks[k])

\* C3: a failing probe aborts neither its batch nor the scan: once a probe
\* of a directory scan has failed the scan raises nothing, every response of
\* the batch is in the results once the batch is collected, and the scan
\* ends only after every batch was dispatched and collected.
C3_FailureContained ==
  (mode = "dir" /\ SomeProbeFailed) =>
    /\ pc \in {"gather", "loop", "done"}
    /\ raised = "none"
    /\ pc \in {"loop", "done"} =>
         \A k \in 1..Len(tasks) :
           tasks[k].state = "dict" =>
             \E r \in 1..Len(results) :
               /\ results[r].unit = tasks[k].unit
               /\ results[r].status_code = tasks[k].status
    /\ pc = "done" =>
         /\ i >= Len(wordlist)
         /\ progressCalls = Ceil(Len(wordlist), threads)
         /\ Len(outcomes) = Len(dispatched)

\* the scan is complete; the first probe of the first batch raised, the
\* second probe of that batch responded and is in the results, and a later
\* batch ran
C3_Witness ==
  /\ mode = "dir"
  /\ pc = "done"
  /\ progressCalls >= 2
  /\ Len(outcomes) >= 3
  /\ outcomes[1].state = "exc"
  /\ outcomes[2].state = "dict"
  /\ Len(results) >= 1
  /\ results[1].unit = 2
  /\ threads * (1 + Len(types)) >= 2

\* C4: under FairSpec (no interrupt, every dispatched probe settles) a
\* directory scan that has started reaches "scan complete", whatever the
\* outcomes of its probes.
C4_ScanCompletes ==
  (mode = "dir" /\ pc = "loop") ~> (mode = "dir" /\ pc = "done")

\* a directory scan of several batches is complete and every probe failed
C4_Witness ==
  /\ mode = "dir"
  /\ pc = "done"
  /\ progressCalls >= 2
  /\ Len(outcomes) >= 2
  /\ \A u \in 1..Len(outcomes) : Failed(outcomes[u])
  /\ \E u \in 1..Len(outcomes) : outcomes[u].state = "exc"

\* the positions of the result list that hold a record of probe unit u
RecordsOfUnit(u) == { r \in 1..Len(results) : results[r].unit = u }

\* C5: at completion of a directory scan the result list holds exactly one
\* record (its URL and status code) for each probe unit that was answered,
\* and none for a unit whose request failed or timed out.
C5_ResultsAreResponses ==
  (mode = "dir" /\ pc = "done") =>
    /\ Len(outcomes) = Len(dispatched)
    /\ \A u \in 1..Len(outcomes) :
         IF outcomes[u].state = "dict"
         THEN /\ Cardinality(RecordsOfUnit(u)) = 1
              /\ \A r \in RecordsOfUnit(u) :
                   /\ results[r].url = Url(dispatched[u])
                   /\ results[r].status_code = outcomes[u].status
         ELSE RecordsOfUnit(u) = {}
    /\ \A r \in 1..Len(results) : results[r].unit \in 1..Len(outcomes)

\* a complete scan in which one probe timed out (raised), one hit a client
\* error, one was answered 404 and one 200
C5_Witness ==
  /\ mode = "dir"
  /\ pc = "done"
  /\ \E u \in 1..Len(outcomes) : outcomes[u].state = "exc"
  /\ \E u \in 1..Len(outcomes) : outcomes[u].state = "none"
  /\ \E r \in 1..Len(results) : results[r].status_code = 404
  /\ \E r \in 1..Len(results) : results[r].status_code = 200
  /\ Len(results) = Len(outcomes) - 2

C7_ProcessedCount ==
  /\ [](processed <= Len(wordlist) /\ (pc = "done" => processed = Len(wordlist)))
  /\ [][ mode' = "dir" =>
           /\ processed' >= processed
           /\ processed' # processed =>
                /\ pc = "gather"
                /\ Settled(tasks)
                /\ processed' - processed = Min(threads, Len(wordlist) - i) ]_vars

\* a complete directory scan of several batches whose words expanded to more
\* probe units than base candidates
C7_Witness ==
  /\ mode = "dir"
  /\ pc = "done"
  /\ progressCalls >= 2
  /\ Len(dispatched) > Len(wordlist)
  /\ processed = Len(wordlist)

\* the word ends with the extension: some prefix of it, followed by the
\* extension, is the word
EndsWithExt(word, ext) ==
  \E n \in 0..Len(word) : SubSeq(word, 1, n) \o ext = word

\* the extensions of the list, in its order, that the word does not end with
ValidExts(word, exts) == SelectSeq(exts, LAMBDA e : ~EndsWithExt(word, e))

\* the probe units of one word: the word, then word.ext per valid extension
WordExpansion(word, exts) ==
  << word >> \o [ k \in 1..Len(ValidExts(word, exts)) |->
                    word \o <<".">> \o ValidExts(word, exts)[k] ]

RECURSIVE ExpansionUpTo(_)
\* the expansion of the first n words of the wordlist
ExpansionUpTo(n) ==
  IF n = 0 THEN <<>>
  ELSE ExpansionUpTo(n - 1) \o WordExpansion(wordlist[n], types)

RECURSIVE ValidExtSum(_)
\* the number of valid extensions of the first n words
ValidExtSum(n) ==
  IF n = 0 THEN 0
  ELSE ValidExtSum(n - 1) + Len(ValidExts(wordlist[n], types))

\* the number of words whose batch has been dispatched
WordsDispatched ==
  IF pc = "gather" THEN Min(i + threads, Len(wordlist)) ELSE Min(i, Len(wordlist))

\* C8: in a directory scan the probe units dispatched so far are exactly the
\* expansion, in input order, of the words whose batch was dispatched; at
\* completion they are the expansion of the whole wordlist, |W| plus the
\* number of valid extensions in all, and each was settled once.
C8_DispatchIsExpansion ==
  mode = "dir" =>
    /\ dispatched = ExpansionUpTo(WordsDispatched)
    /\ pc = "done" =>
         /\ dispatched = ExpansionUpTo(Len(wordlist))
         /\ Len(dispatched) = Len(wordlist) + ValidExtSum(Len(wordlist))
         /\ Len(outcomes) = Len(dispatched)

\* a complete directory scan in which an extension was dispatched, an
\* extension was skipped for a word that ends with it, and a probe failed
C8_Witness ==
  /\ mode = "dir"
  /\ pc = "done"
  /\ Len(dispatched) > Len(wordlist)
  /\ Len(dispatched) < Len(wordlist) * (1 + Len(types))
  /\ \E u \in 1..Len(outcomes) : Failed(outcomes[u])

\* C9: in a directory scan the records of the result list are in dispatch
\* order: of two records, the one of the probe unit dispatched earlier comes
\* first.
C9_ResultsInDispatchOrder ==
  mode = "dir" =>
    \A a, b \in 1..Len(results) :
      a < b => results[a].unit < results[b].unit

\* a complete directory scan with records of two batches, two of them of
\* one batch, in which probes did not settle in dispatch order
C9_Witness ==
  /\ mode = "dir"
  /\ pc = "done"
  /\ reordered
  /\ progressCalls >= 2
  /\ Len(results) >= 3

\* C10: a scanner is never constructed over an empty candidate sequence: the
\* constructor raises, no session is opened and nothing is dispatched.
C10_EmptyRejected ==
  (pc # "new" /\ wordlist = <<>>) =>
    /\ pc = "error"
    /\ session = "none"
    /\ dispatched = <<>>


\* C11: after an interrupt of a scan run through main() the results of the
\* batches completed before it are not lost: when an output file was asked
\* for, main() has exported them by the time it exits.
C11_InterruptKeepsResults ==
  (pc = "exit" /\ raised = "KeyboardInterrupt" /\ out /\ results # <<>>) =>
    /\ file # Absent
    /\ file = ExportFile(results, format, Absent)

\* scan_directories has terminated: returned, been cancelled or raised
ScanDirectoriesEnded ==
  /\ mode = "dir"
  /\ pc \in {"done", "cancelled", "failed", "exit"}

\* C12: once scan_directories has terminated, by whatever path, the session
\* is closed and the field reset (self.session is None).
C12_SessionReleased ==
  ScanDirectoriesEnded => session = "none"

\* a directory scan interrupted in the middle of a batch, one probe settled
\* and one cancelled, after the session had been opened
C12_Witness ==
  /\ mode = "dir"
  /\ pc = "cancelled"
  /\ raised = "KeyboardInterrupt"
  /\ sessionTimeout > 0
  /\ \E k \in 1..Len(tasks) : tasks[k].state = "cancelled"
  /\ \E k \in 1..Len(tasks) : tasks[k].state = "dict"
  /\ session = "none"


RECURSIVE OwnRecordCount(_)
\* the number of records the first n logged outcomes of this scan
\* invocation stand for: one per answered URL, one per resolved address
OwnRecordCount(n) ==
  IF n = 0 THEN 0
  ELSE OwnRecordCount(n - 1)
       + (IF outcomes[n].state = "dict" THEN 1
          ELSE IF outcomes[n].state = "answers" THEN outcomes[n].status
          ELSE 0)

\* C13: the result list a scan invocation ends with holds the records of
\* that invocation's own probes and no others.
C13_SinkFreshPerScan ==
  pc = "done" => Len(results) = OwnRecordCount(Len(outcomes))

\* C16: two runs of the same directory scan without extensions against a
\* stable target find the same set of (URL, status code).
C16_SameFoundSet ==
  (/\ stable
   /\ types = <<>>
   /\ scans = 1
   /\ pc = "done"
   /\ mode = "dir"
   /\ first.mode = "dir") => FoundSet(results) = first.found

\* the second run, on a new scanner, is complete; its probes settled out of
\* dispatch order, one failed and one was answered
C16_Witness ==
  /\ stable
  /\ types = <<>>
  /\ scans = 1
  /\ pc = "done"
  /\ mode = "dir"
  /\ first.mode = "dir"
  /\ reordered
  /\ first.found # {}
  /\ Len(results) = OwnRecordCount(Len(outcomes))
  /\ \E u \in 1..Len(outcomes) : Failed(outcomes[u])
  /\ FoundSet(results) = first.found


\* the tasks of the gather that returned a dict
DictTasks == { k \in 1..Len(tasks) : tasks[k].state = "dict" }

\* C14: the accumulated results only grow at the end: every step keeps the
\* records it finds, unchanged and in place; a returning gather appends one
\* record per answered probe, repeated URLs included; a step that writes the
\* export file leaves the list as it is.
C14_AppendOnly ==
  [][ /\ Len(results') >= Len(results)
      /\ SubSeq(results', 1, Len(results)) = results
      /\ (pc = "gather" /\ pc' = "loop") =>
           Len(results') = Len(results) + Cardinality(DictTasks)
      /\ file' # file => results' = results ]_vars

\* the export has written the file of a scan that found the same URL twice
C14_Witness ==
  /\ mode = "dir"
  /\ pc = "exit"
  /\ raised = "none"
  /\ file # Absent
  /\ \E j, k \in 1..Len(results) :
       /\ j < k
       /\ results[j].url = results[k].url
       /\ file = ExportFile(results, format, Absent)


\* the records as the program holds them: the history field left out
Records(rs) ==
  [ k \in 1..Len(rs) |-> [ f \in DOMAIN rs[k] \ {"unit"} |-> rs[k][f] ] ]

\* main() has exported the results of a completed scan as JSON
JsonExported ==
  /\ pc = "exit"
  /\ raised = "none"
  /\ out
  /\ format = "json"

\* C15: after a JSON export the output file exists and reading it back gives
\* the accumulated records, field for field and in order, whatever their
\* number.
C15_JsonRoundTrip ==
  JsonExported =>
    /\ file.fmt = "json"
    /\ JsonLoad(file.text) = Records(results)


\* C17: the accumulated results have a single writer: no step changes them
\* while a probe is in flight, no step that settles or dispatches probes
\* changes them, and in a directory scan they change only in the step from
\* the returned gather back to the loop.
C17_SingleWriter ==
  [][ /\ InFlight # {} => results' = results
      /\ tasks' # tasks => results' = results
      /\ (mode = "dir" /\ results' # results) =>
           /\ pc = "gather"
           /\ pc' = "loop"
           /\ Settled(tasks) ]_vars

\* records of an earlier batch are accumulated; in the current batch a probe
\* has returned its dict, which is not accumulated, while another probe is
\* still in flight
C17_Witness ==
  /\ mode = "dir"
  /\ pc = "gather"
  /\ results # <<>>
  /\ InFlight # {}
  /\ \E k \in 1..Len(tasks) :
       /\ tasks[k].state = "dict"
       /\ \A j \in 1..Len(results) : results[j].unit # tasks[k].unit


RECURSIVE LabelRecords(_)
\* the records owed to the first n labels of the wordlist, by their logged
\* outcomes: one per address of an answer, none for any other outcome
LabelRecords(n) ==
  IF n = 0 THEN <<>>
  ELSE LabelRecords(n - 1)
       \o (IF outcomes[n].state = "answers"
           THEN [ a \in 1..outcomes[n].status |->
                    [subdomain |-> wordlist[n] \o <<".">> \o Target,
                     ip |-> a, unit |-> n] ]
           ELSE <<>>)

\* C18: in a subdomain scan the labels resolved so far are the wordlist's
\* first labels, each once and in order; the results are one record per
\* address of each answered label and nothing for NXDOMAIN, no answer or any
\* other resolver error; no resolver outcome stops the scan, which ends with
\* every label resolved and progress equal to the number of labels.
C18_SubdomainScan ==
  mode = "sub" =>
    /\ pc \in {"subloop", "done"}
    /\ raised = "none"
    /\ i <= Len(wordlist)
    /\ dispatched = SubSeq(wordlist, 1, i)
    /\ Len(outcomes) = i
    /\ processed = i
    /\ results = LabelRecords(i)
    /\ pc = "done" => i = Len(wordlist)

\* a completed subdomain scan of three labels: a resolver error, then an
\* absent label, then an answer of two addresses
C18_Witness ==
  /\ mode = "sub"
  /\ pc = "done"
  /\ Len(wordlist) = 3
  /\ outcomes[1].state = "exc"
  /\ outcomes[2].state \in {"NXDOMAIN", "NoAnswer"}
  /\ outcomes[3].state = "answers"
  /\ outcomes[3].status = 2
  /\ Len(results) = 2
  /\ processed = 3


\* C19: the timeout of the session the HTTP probes of a scan are sent through
\* is the configured one: the value of main()'s --timeout option.
C19_TimeoutAsConfigured ==
  (mode = "dir" /\ session = "open") => sessionTimeout = argTimeout


\* the most probes one batch launches: W words and every expansion of each
BatchBound == threads * (1 + Len(types))

\* a full batch has just been launched: W words were left, none of them
\* ends with an extension, and no probe has settled yet
FullBatchLaunched ==
  /\ pc = "gather"
  /\ i + threads <= Len(wordlist)
  /\ \A w \in (i + 1)..(i + threads) :
       \A e \in 1..Len(types) : ~EndsWithExt(wordlist[w], types[e])
  /\ \A k \in 1..Len(tasks) : tasks[k].state = "pending"

\* C20: in a directory scan the probes in flight never exceed W * (1 + |E|),
\* and a full batch of words without extension has exactly that many in
\* flight.
C20_InFlightWithinBatchBound ==
  mode = "dir" =>
    /\ threads >= 1
    /\ Cardinality(InFlight) <= BatchBound
    /\ FullBatchLaunched => Cardinality(InFlight) = BatchBound

\* two words, each with its expansion, are in flight at width 2: four
\* probes, more than the width
C20_Witness ==
  /\ mode = "dir"
  /\ FullBatchLaunched
  /\ threads = 2
  /\ Len(types) = 1
  /\ Cardinality(InFlight) = 4

====
